---- MODULE Spec2Model ----
(***************************************************************************)
(* Model of main.py: the reformagkh crawl / cache / parse pipeline.        *)
(*                                                                         *)
(* Python's None is modelled as the empty tuple and a present value x as   *)
(* the one-element tuple <<x>>, so that an optional field can always be    *)
(* compared with None.  Cyrillic literals of the source are written in     *)
(* Latin transliteration.                                                  *)
(***************************************************************************)
EXTENDS Integers, Sequences, FiniteSets, TLC

VARIABLES
    \* ---- content cache and fetcher ----
    urls,        \* the list of URLs handed to get_chunks / fetch_urls
    count,       \* the requested number of chunks
    chunks,      \* result of get_chunks(urls, count); chunk w is worker w's input
    phase,       \* "start" before get_chunks has run, "crawl" after
    wpc,         \* per worker: the statement of fetch_url it is at
    pos,         \* per worker: index of the current URL in its chunk
    html,        \* per worker: the local variable html of fetch_url
    html_files,  \* HTML_DIR: URL -> None (no file) or Some(blob)
    html_list,   \* HTML_LIST: the lines of list.txt, in file order
    network,     \* number of GET requests issued so far, per URL
    \* ---- region tree and region persistence ----
    site,          \* the cached region pages: rows of the root page and of each tid page
    rpc,           \* stage of the region pipeline
    passes,        \* number of load_raw_subregions passes applied so far
    regions,       \* the current sequence of RegionRecord
    regions_json,  \* REGIONS: None (no file) or Some(document)
    loaded_regions, \* the sequence load_regions produced
    \* ---- listing parser and listing persistence ----
    list_regions,      \* the regions handed to load_raw_region_lists / load_region_lists
    list_pages,        \* the cached listing pages, by region id
    lpc,               \* stage of the listing pipeline
    results,           \* the records load_raw_region_lists yielded
    parsed,            \* a direct parse_region_list call: arguments and outcome
    region_lists_json, \* REGION_LISTS: None (no file) or Some(document)
    loaded_lists,      \* the records load_region_lists yielded
    \* ---- profile parser and dataset export ----
    profile_pages,  \* the cached profile pages to parse, in order
    ppc,            \* stage of the profile pipeline
    profiles,       \* the BuildingProfile records parsed so far
    data_csv        \* DATA: None (no file) or Some(rows)

cacheVars == <<urls, count, chunks, phase, wpc, pos, html, html_files,
               html_list, network>>

regionVars == <<site, rpc, passes, regions, regions_json, loaded_regions>>

listVars == <<list_regions, list_pages, lpc, results, parsed, region_lists_json,
              loaded_lists>>

profileVars == <<profile_pages, ppc, profiles, data_csv>>

vars == <<cacheVars, regionVars, listVars, profileVars>>

None == <<>>

Some(x) == <<x>>

Min(a, b) == IF a < b THEN a ELSE b

\* ---- bounds ----
MaxUrls == 3

MaxWorkers == 2

MaxNodes == 3

MaxPasses == 3

MaxRows == 2

MaxProfiles == 2

\* dump_data: the size of the sample written to the export.
SAMPLE_SIZE == 500000

URLS == {"u1", "u2"}

SeqsUpTo(S, n) == UNION {[1..k -> S] : k \in 0..n}

\* The region pipeline has not been started and holds no data.
RegionIdle ==
    /\ site = [root |-> <<>>, pages |-> <<>>]
    /\ rpc = "idle"
    /\ passes = 0
    /\ regions = <<>>
    /\ regions_json = None
    /\ loaded_regions = <<>>

\* The listing pipeline has not been started and holds no data.
ListIdle ==
    /\ list_regions = <<>>
    /\ list_pages = <<>>
    /\ lpc = "idle"
    /\ results = <<>>
    /\ parsed = None
    /\ region_lists_json = None
    /\ loaded_lists = <<>>

\* The profile pipeline has not been started and holds no data.
ProfileIdle ==
    /\ profile_pages = <<>>
    /\ ppc = "idle"
    /\ profiles = <<>>
    /\ data_csv = None

(***************************************************************************)
(* Content cache                                                           *)
(***************************************************************************)

\* get_chunks with the modulus dropped from the placement: every item goes to
\* the first chunk.
get_chunks_first(sequence, cnt) ==
    LET c == Min(cnt, Len(sequence))
    IN  [j \in 1..c |-> IF j = 1 THEN sequence ELSE <<>>]

\* get_chunks: count = min(count, len(sequence)); item at (0-based) index i is
\* appended to chunks[i % count], in enumeration order.
get_chunks(sequence, cnt) ==
    LET c == Min(cnt, Len(sequence))
        RECURSIVE place(_, _)
        place(i, acc) ==
            IF i > Len(sequence) THEN acc
            ELSE LET j == ((i - 1) % c) + 1
                 IN  place(i + 1, [acc EXCEPT ![j] = Append(@, sequence[i])])
    IN  place(1, [j \in 1..c |-> <<>>])

\* hash_url: hex SHA-1 of the UTF-8 bytes of the URL (kept symbolic).
hash_url(url) == "sha1(" \o url \o ")"

\* get_html_path: HTML_DIR/{hash}.html
get_html_path(url) == "data/html/" \o hash_url(url) \o ".html"

\* The line update_urls_cache writes, without its newline.
index_line(url) == hash_url(url) \o "\t" \o url

\* update_urls_cache opening the index with mode 'w' instead of 'a'.
update_urls_cache_truncate(url, file) == <<index_line(url)>>

\* update_urls_cache: open(path, 'a') and write one line.
update_urls_cache(url, file) == Append(file, index_line(url))

\* The body requests.get returns for a URL.
response_text(url) == "<html>" \o url \o "</html>"

\* curl_url without the except clause: the RequestException propagates.
curl_url_raise(url, outcome) ==
    IF outcome = "ok" THEN [raised |-> FALSE, value |-> Some(response_text(url))]
    ELSE [raised |-> TRUE, value |-> None]

\* curl_url: response.text, or None when requests.get raises RequestException.
curl_url(url, outcome) ==
    IF outcome = "ok" THEN [raised |-> FALSE, value |-> Some(response_text(url))]
    ELSE [raised |-> FALSE, value |-> None]

\* dump_html, lines 211-214: the blob written for html (None becomes '').
blob_of(h) == IF h = None THEN "" ELSE h[1]

Workers == DOMAIN chunks

current_url(w) == chunks[w][pos[w]]

CacheInit ==
    /\ urls \in SeqsUpTo(URLS, MaxUrls)
    /\ count \in 1..MaxWorkers
    /\ chunks = <<>>
    /\ phase = "start"
    /\ wpc = <<>>
    /\ pos = <<>>
    /\ html = <<>>
    /\ html_files = [u \in URLS |-> None]
    /\ html_list = <<>>
    /\ network = [u \in URLS |-> 0]
    /\ RegionIdle
    /\ ListIdle
    /\ ProfileIdle

\* The URL list is partitioned; worker w will run fetch_urls(chunks[w]).
Partition ==
    /\ phase = "start"
    /\ phase' = "crawl"
    /\ chunks' = get_chunks(urls, count)
    /\ wpc' = [w \in DOMAIN chunks' |-> "curl"]
    /\ pos' = [w \in DOMAIN chunks' |-> 1]
    /\ html' = [w \in DOMAIN chunks' |-> None]
    /\ UNCHANGED <<urls, count, html_files, html_list, network,
                   regionVars, listVars,
                   profileVars>>

\* fetch_url, line 245: html = curl_url(url).  One GET is issued.
FetchCurl(w) ==
    /\ phase = "crawl"
    /\ wpc[w] = "curl"
    /\ \E outcome \in {"ok", "RequestException"} :
         LET r == curl_url(current_url(w), outcome)
         IN  /\ network' = [network EXCEPT ![current_url(w)] = @ + 1]
             /\ html' = [html EXCEPT ![w] = r.value]
             /\ wpc' = [wpc EXCEPT ![w] = IF r.raised THEN "raised" ELSE "write"]
    /\ UNCHANGED <<urls, count, chunks, phase, pos, html_files, html_list,
                   regionVars, listVars,
                   profileVars>>

\* dump_html, lines 210-214: the blob file is (re)written.
DumpHtmlWrite(w) ==
    /\ phase = "crawl"
    /\ wpc[w] = "write"
    /\ html_files' = [html_files EXCEPT ![current_url(w)] = Some(blob_of(html[w]))]
    /\ wpc' = [wpc EXCEPT ![w] = "index"]
    /\ UNCHANGED <<urls, count, chunks, phase, pos, html, html_list, network,
                   regionVars, listVars,
                   profileVars>>

\* dump_html, line 215: update_html_cache(url); then fetch_urls moves on.
DumpHtmlIndex(w) ==
    /\ phase = "crawl"
    /\ wpc[w] = "index"
    /\ html_list' = update_urls_cache(current_url(w), html_list)
    /\ pos' = [pos EXCEPT ![w] = @ + 1]
    /\ wpc' = [wpc EXCEPT ![w] =
                  IF pos[w] + 1 > Len(chunks[w]) THEN "done" ELSE "curl"]
    /\ UNCHANGED <<urls, count, chunks, phase, html, html_files, network,
                   regionVars, listVars,
                   profileVars>>

CacheNext ==
    \/ Partition
    \/ \E w \in Workers : FetchCurl(w)
    \/ \E w \in Workers : DumpHtmlWrite(w)
    \/ \E w \in Workers : DumpHtmlIndex(w)

SpecCache == CacheInit /\ [][CacheNext]_vars

(***************************************************************************)
(* Properties of the content cache and the fetcher                         *)
(***************************************************************************)

\* list_urls_cache: the URLs whose line occurs in the index file.
list_html_cache == {u \in URLS : \E i \in DOMAIN html_list : html_list[i] = index_line(u)}

\* Number of index lines that belong to URL u.
IndexLines(u) == Cardinality({i \in DOMAIN html_list : html_list[i] = index_line(u)})

\* Number of dump_html calls for URL u that worker w has completed.
CompletedBy(w, u) == Cardinality({i \in 1..(pos[w] - 1) : chunks[w][i] = u})

RECURSIVE CompletedUpTo(_, _)
CompletedUpTo(n, u) ==
    IF n = 0 THEN 0 ELSE CompletedBy(n, u) + CompletedUpTo(n - 1, u)

\* Number of completed dump_html calls for URL u, over all workers.
Completed(u) == CompletedUpTo(Len(chunks), u)

AllDone == phase = "crawl" /\ \A w \in Workers : wpc[w] = "done"

\* C1 (as claimed): a GET is never issued for a URL that is already recorded
\* in the cache index, so a second fetch_url(u) performs no network call.
C1_NoRefetch ==
    [][\A u \in URLS : network'[u] > network[u] => u \notin list_html_cache]_vars

\* C6: a failed GET never aborts the crawl.  No worker is ever stopped by an
\* exception; a fetch whose GET failed writes the empty blob; every URL whose
\* fetch_url has completed has a blob and an index line; and once fetch_urls
\* has run to its end every URL of the input has both.
C6_FailureNeverAborts ==
    /\ [](/\ \A w \in Workers : wpc[w] # "raised"
          /\ \A w \in Workers : \A i \in 1..(pos[w] - 1) :
                /\ html_files[chunks[w][i]] # None
                /\ chunks[w][i] \in list_html_cache
          /\ AllDone => \A i \in DOMAIN urls :
                /\ html_files[urls[i]] # None
                /\ urls[i] \in list_html_cache)
    /\ [][\A w \in Workers :
            (wpc[w] = "write" /\ wpc'[w] = "index" /\ html[w] = None)
                => html_files'[current_url(w)] = Some("")]_vars

\* A crawl that ran to its end although a GET failed before a later,
\* successful fetch of another URL by the same worker.
C6_Witness ==
    /\ AllDone
    /\ \E w \in Workers : \E i \in 1..(Len(chunks[w]) - 1) :
          /\ chunks[w][i] # chunks[w][i + 1]
          /\ html_files[chunks[w][i]] = Some("")
          /\ html_files[chunks[w][i + 1]] = Some(response_text(chunks[w][i + 1]))

\* Positions of the input that fall into chunk j when there are n chunks.
PositionsOf(j, n) == {i \in DOMAIN urls : (i - 1) % n = j - 1}

\* C8: get_chunks returns min(count, len) chunks; the item at 0-based index i
\* is the (i div n)-th item of chunk i mod n and of no other chunk, so every
\* position of the input occurs in exactly one chunk and chunks keep the
\* input order.
C8_RoundRobinPartition ==
    phase = "crawl" =>
        LET n == Len(chunks)
        IN  /\ n = Min(count, Len(urls))
            /\ \A j \in 1..n :
                  /\ Len(chunks[j]) = Cardinality(PositionsOf(j, n))
                  /\ \A k \in 1..Len(chunks[j]) :
                        chunks[j][k] = urls[(k - 1) * n + j]

\* Three URLs have been dealt to two chunks.
C8_Witness ==
    /\ phase = "crawl"
    /\ Len(urls) = 3
    /\ Len(chunks) = 2
    /\ Len(chunks[1]) = 2
    /\ Len(chunks[2]) = 1

\* C10: the index is an append-only log.  Every step leaves it unchanged or
\* appends one line '{sha1(url)}\t{url}'; a URL has exactly as many lines as
\* dump_html calls completed for it; and a URL with a completed call has a
\* blob and at least one line.
C10_IndexAppendOnly ==
    /\ [][\/ html_list' = html_list
          \/ \E u \in URLS : html_list' = Append(html_list, index_line(u))]_vars
    /\ [](phase = "crawl" =>
            \A u \in URLS :
                /\ IndexLines(u) = Completed(u)
                /\ Completed(u) >= 1 =>
                      (html_files[u] # None /\ u \in list_html_cache))

\* Two workers have both completed a dump_html for the same URL, the last
\* of them with null content.
C10_Witness ==
    /\ phase = "crawl"
    /\ Len(chunks) = 2
    /\ \E u \in URLS :
          /\ CompletedBy(1, u) >= 1
          /\ CompletedBy(2, u) >= 1
          /\ IndexLines(u) = 2
          /\ html_files[u] = Some("")

(***************************************************************************)
(* Region tree builder and region persistence                              *)
(***************************************************************************)

\* The cache stage has not been started and holds no data.
CacheIdle ==
    /\ urls = <<>>
    /\ count = 1
    /\ chunks = <<>>
    /\ phase = "idle"
    /\ wpc = <<>>
    /\ pos = <<>>
    /\ html = <<>>
    /\ html_files = [u \in URLS |-> None]
    /\ html_list = <<>>
    /\ network = [u \in URLS |-> 0]

Nodes == 1..MaxNodes

\* Value of a decimal digit character.
digit(c) == CHOOSE d \in 0..9 : ToString(d) = c

\* int() of a string of decimal digits, given as a sequence of characters.
RECURSIVE int_of(_, _)
int_of(chars, acc) ==
    IF chars = <<>> THEN acc
    ELSE int_of(Tail(chars), 10 * acc + digit(Head(chars)))

\* parse_reforma_int: int(string.replace(' ', ''))
parse_reforma_int(string) == int_of(SelectSeq(string, LAMBDA c : c # " "), 0)

\* RegionRecord(parent, name, id, buildings)
RegionRecord(parent, name, id, buildings) ==
    [parent |-> parent, name |-> name, id |-> id, buildings |-> buildings]

\* parse_regions_list: one RegionRecord per row that has a link; the id is
\* None when the link has no href; the count is read from the next sibling.
RECURSIVE parse_regions_list(_, _)
parse_regions_list(rows, parent) ==
    IF rows = <<>> THEN <<>>
    ELSE LET item == Head(rows)
             rest == parse_regions_list(Tail(rows), parent)
         IN  IF item.link
             THEN <<RegionRecord(parent, item.name, item.href,
                                 parse_reforma_int(item.span))>> \o rest
             ELSE rest

\* load_html(subregions_list_url(id)): the rows of the cached page of tid id.
subregions_page(id) == site.pages[id]

\* load_raw_subregions that yields a probed region together with its rows.
RECURSIVE load_raw_subregions_keep(_)
load_raw_subregions_keep(rs) ==
    IF rs = <<>> THEN <<>>
    ELSE LET region == Head(rs)
             rest == load_raw_subregions_keep(Tail(rs))
         IN  IF region.id = None THEN <<region>> \o rest
             ELSE <<region>>
                  \o parse_regions_list(subregions_page(region.id[1]), Some(region))
                  \o rest

\* load_raw_subregions: one pass; a region with id None or with an empty
\* sub-listing is yielded itself, any other is replaced by its rows.
RECURSIVE load_raw_subregions(_)
load_raw_subregions(rs) ==
    IF rs = <<>> THEN <<>>
    ELSE LET region == Head(rs)
             rest == load_raw_subregions(Tail(rs))
         IN  IF region.id = None THEN <<region>> \o rest
             ELSE LET subregions ==
                        parse_regions_list(subregions_page(region.id[1]), Some(region))
                  IN  IF subregions = <<>> THEN <<region>> \o rest
                      ELSE subregions \o rest

\* json.dump of a dict key: an int becomes its decimal string, None "null".
json_key(id) == IF id = None THEN "null" ELSE ToString(id[1])

\* dump_regions, lines 323-329: the parent-table entries of one ancestor
\* chain, the nearest ancestor first.
RECURSIVE chain_entries(_)
chain_entries(parent) ==
    IF parent = None THEN <<>>
    ELSE LET p == parent[1]
         IN  <<[key |-> json_key(p.id),
                value |-> <<(IF p.parent # None THEN p.parent[1].id ELSE None),
                            p.name, p.buildings>>]>>
             \o chain_entries(p.parent)

\* parents[id] = ... for a sequence of entries, later entries overwriting.
RECURSIVE assign_all(_, _)
assign_all(table, entries) ==
    IF entries = <<>> THEN table
    ELSE assign_all((Head(entries).key :> Head(entries).value) @@ table,
                    Tail(entries))

\* dump_regions: the JSON document (parents, leafs), or the AttributeError of
\* parent.id (line 322) for a region whose parent is None.
RECURSIVE dump_regions_from(_, _, _)
dump_regions_from(rs, parents, leafs) ==
    IF rs = <<>>
    THEN [raised |-> FALSE, value |-> Some([parents |-> parents, leafs |-> leafs])]
    ELSE LET region == Head(rs)
         IN  IF region.parent = None
             THEN [raised |-> TRUE, value |-> None]
             ELSE dump_regions_from(
                      Tail(rs),
                      assign_all(parents, chain_entries(region.parent)),
                      Append(leafs, <<region.parent[1].id, region.name,
                                      region.id, region.buildings>>))

dump_regions(rs) == dump_regions_from(rs, <<>>, <<>>)

\* load_regions, line 345: int(key) of every key of the parent table; the
\* key "null" has no integer value.
int_keys_ok(parents) == \A k \in DOMAIN parents : k # "null"

\* parents[id] after the int(key) conversion: KeyError unless id is an int
\* whose decimal string is a key.
has_parent(id, parents) == id # None /\ json_key(id) \in DOMAIN parents

\* load_parent_region: the freshly built ancestor chain of id.
RECURSIVE load_parent_region(_, _)
load_parent_region(id, parents) ==
    IF ~has_parent(id, parents) THEN [raised |-> TRUE, value |-> None]
    ELSE LET entry == parents[json_key(id)]
             parent_id == entry[1]
             up == IF parent_id = None
                   THEN [raised |-> FALSE, value |-> None]
                   ELSE load_parent_region(parent_id, parents)
         IN  IF up.raised THEN up
             ELSE [raised |-> FALSE,
                   value |-> Some(RegionRecord(up.value, entry[2], id, entry[3]))]

\* load_regions, lines 346-350: one RegionRecord per leaf, with its chain.
RECURSIVE load_leafs(_, _)
load_leafs(leafs, parents) ==
    IF leafs = <<>> THEN [raised |-> FALSE, value |-> <<>>]
    ELSE LET leaf == Head(leafs)
             parent == load_parent_region(leaf[1], parents)
             rest == load_leafs(Tail(leafs), parents)
         IN  IF parent.raised \/ rest.raised THEN [raised |-> TRUE, value |-> <<>>]
             ELSE [raised |-> FALSE,
                   value |-> <<RegionRecord(parent.value, leaf[2], leaf[3], leaf[4])>>
                             \o rest.value]

load_regions(document) ==
    IF ~int_keys_ok(document.parents) THEN [raised |-> TRUE, value |-> <<>>]
    ELSE load_leafs(document.leafs, document.parents)

\* ---- the cached site ----

\* The shapes of a hierarchy over Nodes: parent 0 is the root page.
Shapes == {p \in [Nodes -> 0..(MaxNodes - 1)] : \A i \in Nodes : p[i] < i}

\* A row is a link with href, a link without href, or a row without a link;
\* only a row with href has a page of its own.
Kinds(p) == {k \in [Nodes -> {"href", "nohref", "nolink"}] :
                \A i \in Nodes : (\E j \in Nodes : p[j] = i) => k[i] = "href"}

\* Text of the building-count span of node i: "1 00i".
span_of(i) == <<"1", " ", "0", "0", ToString(i)>>

row_of(i, k) ==
    [link |-> k[i] # "nolink",
     href |-> IF k[i] = "href" THEN Some(i) ELSE None,
     name |-> "region" \o ToString(i),
     span |-> span_of(i)]

rows_under(t, p, k) ==
    LET children == SelectSeq([j \in Nodes |-> j], LAMBDA j : p[j] = t)
    IN  [n \in DOMAIN children |-> row_of(children[n], k)]

site_of(p, k) ==
    [root |-> rows_under(0, p, k),
     pages |-> [t \in Nodes |-> rows_under(t, p, k)]]

RegionInit ==
    /\ \E p \in Shapes : \E k \in Kinds(p) : site = site_of(p, k)
    /\ rpc = "start"
    /\ passes = 0
    /\ regions = <<>>
    /\ regions_json = None
    /\ loaded_regions = <<>>
    /\ CacheIdle
    /\ ListIdle
    /\ ProfileIdle

\* load_raw_regions: the rows of the root page, with parent None.
LoadRawRegions ==
    /\ rpc = "start"
    /\ regions' = parse_regions_list(site.root, None)
    /\ rpc' = "raw"
    /\ UNCHANGED <<site, passes, regions_json, loaded_regions, cacheVars, listVars, profileVars>>

\* regions = list(load_raw_subregions(regions))
LoadRawSubregions ==
    /\ rpc \in {"raw", "sub"}
    /\ passes < MaxPasses
    /\ regions' = load_raw_subregions(regions)
    /\ passes' = passes + 1
    /\ rpc' = "sub"
    /\ UNCHANGED <<site, regions_json, loaded_regions, cacheVars, listVars, profileVars>>

\* dump_regions(regions), applied to what the builder yielded
DumpRegions ==
    /\ rpc = "sub"
    /\ LET r == dump_regions(regions)
       IN  /\ rpc' = IF r.raised THEN "dump_raised" ELSE "dumped"
           /\ regions_json' = IF r.raised THEN regions_json ELSE r.value
    /\ UNCHANGED <<site, passes, regions, loaded_regions, cacheVars, listVars, profileVars>>

\* loaded_regions = list(load_regions())
LoadRegions ==
    /\ rpc = "dumped"
    /\ LET r == load_regions(regions_json[1])
       IN  /\ rpc' = IF r.raised THEN "load_raised" ELSE "loaded"
           /\ loaded_regions' = r.value
    /\ UNCHANGED <<site, passes, regions, regions_json, cacheVars, listVars, profileVars>>

\* dump_regions(loaded_regions)
RedumpRegions ==
    /\ rpc = "loaded"
    /\ LET r == dump_regions(loaded_regions)
       IN  /\ rpc' = IF r.raised THEN "dump_raised" ELSE "redumped"
           /\ regions_json' = IF r.raised THEN regions_json ELSE r.value
    /\ UNCHANGED <<site, passes, regions, loaded_regions, cacheVars, listVars, profileVars>>

RegionNext ==
    \/ LoadRawRegions
    \/ LoadRawSubregions
    \/ DumpRegions
    \/ LoadRegions
    \/ RedumpRegions

SpecRegions == RegionInit /\ [][RegionNext]_vars

(***************************************************************************)
(* Properties of the region tree builder and of region persistence         *)
(***************************************************************************)

\* A region is a leaf when its id is None or its sub-listing has no rows.
IsLeaf(r) ==
    \/ r.id = None
    \/ parse_regions_list(subregions_page(r.id[1]), Some(r)) = <<>>

InSeq(x, seq) == \E i \in DOMAIN seq : seq[i] = x

\* Every link of the parent chain of r is a row of the page of its parent,
\* up to a row of the root page whose parent is None.
RECURSIVE FullChain(_)
FullChain(r) ==
    IF r.parent = None
    THEN InSeq(r, parse_regions_list(site.root, None))
    ELSE /\ r.parent[1].id # None
         /\ InSeq(r, parse_regions_list(subregions_page(r.parent[1].id[1]), r.parent))
         /\ FullChain(r.parent[1])

\* The hierarchy below rs, every non-leaf replaced by its rows, recursively.
RECURSIVE Expanded(_, _)
Expanded(rs, depth) ==
    IF depth = 0 THEN rs ELSE Expanded(load_raw_subregions(rs), depth - 1)

\* C2 (as claimed): what the region tree builder yields for a hierarchy of
\* any depth is exactly the leaves of the hierarchy, each with its full
\* chain of ancestors.
C2_OnlyLeaves ==
    rpc = "sub" =>
        /\ \A i \in DOMAIN regions : IsLeaf(regions[i]) /\ FullChain(regions[i])
        /\ regions = Expanded(parse_regions_list(site.root, None), MaxNodes)

\* C3 (as claimed): every region store round-trips, also one with a leaf at
\* the top level: neither dump_regions nor load_regions fails, and dumping
\* what load_regions returned writes the document that was loaded.
C3_RoundTrip ==
    /\ [](rpc \notin {"dump_raised", "load_raised"})
    /\ [][(rpc = "loaded" /\ rpc' # rpc)
            => (rpc' = "redumped" /\ regions_json' = regions_json)]_vars

\* The rows of the sub-listing page of tid t that carry a link.
LinkedRows(t) == SelectSeq(site.pages[t], LAMBDA row : row.link)

\* What one pass puts in the place of region r: r itself when it is a leaf,
\* otherwise one region per linked row of its page, with parent r.
Replacement(r) ==
    IF r.id = None \/ LinkedRows(r.id[1]) = <<>> THEN <<r>>
    ELSE [n \in DOMAIN LinkedRows(r.id[1]) |->
             [parent |-> Some(r),
              name |-> LinkedRows(r.id[1])[n].name,
              id |-> LinkedRows(r.id[1])[n].href,
              buildings |-> parse_reforma_int(LinkedRows(r.id[1])[n].span)]]

\* Number of output positions taken by the first n regions of rs.
RECURSIVE OffsetOf(_, _)
OffsetOf(rs, n) ==
    IF n = 0 THEN 0 ELSE OffsetOf(rs, n - 1) + Len(Replacement(rs[n]))

\* Number of levels of the hierarchy below a page with the given rows.
RECURSIVE DepthOf(_)
DepthOf(rows) ==
    LET linked == SelectSeq(rows, LAMBDA row : row.link)
        below == {IF linked[n].href = None THEN 0
                  ELSE DepthOf(site.pages[linked[n].href[1]]) : n \in DOMAIN linked}
    IN  IF linked = <<>> THEN 0
        ELSE 1 + (CHOOSE d \in below : \A e \in below : e <= d)

\* A step that is one pass of load_raw_subregions.
IsPass == rpc \in {"raw", "sub"} /\ passes' = passes + 1

\* C11: one pass of load_raw_subregions lists, in input order, each leaf
\* itself or in its place all rows of its sub-listing with parent set to
\* that region; on an input of leaves only the output is the input; and on
\* a hierarchy of depth d all regions are leaves, and further passes change
\* nothing, once d passes have been made.
C11_PassFixedPoint ==
    /\ [][IsPass =>
            /\ Len(regions') = OffsetOf(regions, Len(regions))
            /\ \A i \in DOMAIN regions : \A k \in DOMAIN Replacement(regions[i]) :
                  regions'[OffsetOf(regions, i - 1) + k] = Replacement(regions[i])[k]
            /\ (\A i \in DOMAIN regions : IsLeaf(regions[i])) => regions' = regions]_vars
    /\ []((rpc = "sub" /\ passes >= DepthOf(site.root)) =>
            /\ \A i \in DOMAIN regions : IsLeaf(regions[i])
            /\ load_raw_subregions(regions) = regions)

\* A pass has kept a top-level leaf and put the rows of another region in
\* that region's place.
C11_Witness ==
    /\ rpc = "sub"
    /\ passes = 1
    /\ Len(regions) >= 2
    /\ \E i, j \in DOMAIN regions :
          /\ regions[i].parent = None
          /\ regions[j].parent # None
          /\ regions[j].parent[1].id # None

(***************************************************************************)
(* Listing parser and listing persistence                                  *)
(***************************************************************************)

\* The "no data" token of the year and area cells, u'n.d.' in Cyrillic.
NO_DATA == <<"n", ".", "d", ".">>

\* The "not filled" token, u'Ne zapolneno' in Cyrillic.
NOT_FILLED == "Ne zapolneno"

\* Decimal digits and scale of a float, without trailing zeros of the fraction.
RECURSIVE float_norm(_, _)
float_norm(mantissa, scale) ==
    IF scale > 0 /\ mantissa % 10 = 0 THEN float_norm(mantissa \div 10, scale - 1)
    ELSE [mantissa |-> mantissa, scale |-> scale]

\* float() of a string of digits with at most one decimal point.
float_of(chars) ==
    LET point == IF \E i \in DOMAIN chars : chars[i] = "."
                 THEN CHOOSE i \in DOMAIN chars : chars[i] = "."
                 ELSE Len(chars) + 1
    IN  float_norm(int_of(SelectSeq(chars, LAMBDA c : c # "."), 0),
                   IF point > Len(chars) THEN 0 ELSE Len(chars) - point)

\* parse_reforma_float: float(string.replace(' ', ''))
parse_reforma_float(string) == float_of(SelectSeq(string, LAMBDA c : c # " "))

\* RegionListRecord(region, id, address, year, area, company)
RegionListRecord(region, id, address, year, area, company) ==
    [region |-> region, id |-> id, address |-> address, year |-> year,
     area |-> area, company |-> company]

\* parse_region_list, lines 373-390: the record of one table row.
parse_row(row, region) ==
    RegionListRecord(
        region,
        int_of(row.href, 0),
        row.address,
        IF row.year = NO_DATA THEN None ELSE Some(int_of(row.year, 0)),
        IF row.area = NO_DATA THEN None ELSE Some(parse_reforma_float(row.area)),
        IF row.company = NOT_FILLED THEN None ELSE Some(row.company))

\* parse_region_list: without the results table the diagnostic prints
\* region.id (line 369), an AttributeError when region is None; otherwise
\* one record per data row.
parse_region_list(page, region) ==
    IF ~page.grid
    THEN [raised |-> region = None, value |-> <<>>]
    ELSE [raised |-> FALSE,
          value |-> [n \in DOMAIN page.rows |-> parse_row(page.rows[n], region)]]

\* load_raw_region_lists: the records of every region that has an id, in
\* the order of the regions.
RECURSIVE load_raw_region_lists(_)
load_raw_region_lists(rs) ==
    IF rs = <<>> THEN [raised |-> FALSE, value |-> <<>>]
    ELSE LET region == Head(rs)
             rest == load_raw_region_lists(Tail(rs))
         IN  IF region.id = None THEN rest
             ELSE LET records == parse_region_list(list_pages[region.id[1]],
                                                   Some(region))
                  IN  IF records.raised \/ rest.raised
                      THEN [raised |-> TRUE, value |-> <<>>]
                      ELSE [raised |-> FALSE, value |-> records.value \o rest.value]

\* dump_region_lists with the null company stored as id 0.
company_id_null_as_zero(company, index, companies) ==
    IF company = None THEN Some(0)
    ELSE IF company[1] \in DOMAIN companies THEN Some(companies[company[1]])
    ELSE Some(index)

\* dump_region_lists, lines 407-413: the id stored for a record's company;
\* index is the record's position in the input.
company_id(company, index, companies) ==
    IF company = None THEN None
    ELSE IF company[1] \in DOMAIN companies THEN Some(companies[company[1]])
    ELSE Some(index)

\* dump_region_lists: the JSON document (companies, data).
RECURSIVE dump_region_lists_from(_, _, _, _)
dump_region_lists_from(records, index, companies, data) ==
    IF records = <<>> THEN [companies |-> companies, data |-> data]
    ELSE LET r == Head(records)
             cid == company_id(r.company, index, companies)
             known == r.company = None \/ r.company[1] \in DOMAIN companies
         IN  dump_region_lists_from(
                 Tail(records), index + 1,
                 IF known THEN companies ELSE (r.company[1] :> index) @@ companies,
                 Append(data, <<r.region[1].id, r.id, r.address, r.year, r.area, cid>>))

dump_region_lists(records) == dump_region_lists_from(records, 0, <<>>, <<>>)

\* load_region_lists, line 426: {_.id: _ for _ in regions}[region_id]; the
\* last region with that id wins, KeyError without one.
region_by_id(region_id, rs) ==
    LET hits == {i \in DOMAIN rs : rs[i].id = region_id}
    IN  IF hits = {} THEN [raised |-> TRUE, value |-> None]
        ELSE [raised |-> FALSE,
              value |-> Some(rs[CHOOSE i \in hits : \A j \in hits : j <= i])]

\* load_region_lists, lines 428-429 and 437: the inverted company table,
\* with None mapped to None.
company_by_id(cid, companies) ==
    IF cid = None THEN [raised |-> FALSE, value |-> None]
    ELSE LET names == {name \in DOMAIN companies : companies[name] = cid[1]}
         IN  IF names = {} THEN [raised |-> TRUE, value |-> None]
             ELSE [raised |-> FALSE, value |-> Some(CHOOSE name \in names : TRUE)]

\* load_region_lists: one record per stored row.
RECURSIVE load_rows(_, _, _)
load_rows(data, companies, rs) ==
    IF data = <<>> THEN [raised |-> FALSE, value |-> <<>>]
    ELSE LET row == Head(data)
             region == region_by_id(row[1], rs)
             company == company_by_id(row[6], companies)
             rest == load_rows(Tail(data), companies, rs)
         IN  IF region.raised \/ company.raised \/ rest.raised
             THEN [raised |-> TRUE, value |-> <<>>]
             ELSE [raised |-> FALSE,
                   value |-> <<RegionListRecord(region.value, row[2], row[3], row[4],
                                                row[5], company.value)>>
                             \o rest.value]

load_region_lists(document, rs) == load_rows(document.data, document.companies, rs)

\* ---- the cached listing pages ----

TopRegion == RegionRecord(None, "region1", Some(1), 1001)

\* The regions the listing stage works on: two with an id, one without.
ListRegions ==
    <<RegionRecord(Some(TopRegion), "region2", Some(2), 1002),
      RegionRecord(Some(TopRegion), "region3", Some(3), 1003),
      RegionRecord(Some(TopRegion), "region4", None, 1004)>>

\* The table rows a listing page is made of.
ListRows ==
    {[href |-> <<"1", "0">>, address |-> "addr10", year |-> <<"1", "9", "7", "5">>,
      area |-> <<"1", " ", "2", "3", "4", ".", "5">>, company |-> "UK Alfa"],
     [href |-> <<"1", "1">>, address |-> "addr11", year |-> NO_DATA,
      area |-> NO_DATA, company |-> NOT_FILLED],
     [href |-> <<"1", "2">>, address |-> "addr12", year |-> <<"2", "0", "0", "1">>,
      area |-> <<"5", "6", ".", "0">>, company |-> "UK Beta"],
     [href |-> <<"1", "3">>, address |-> "addr13", year |-> <<"1", "9", "7", "5">>,
      area |-> NO_DATA, company |-> "UK Alfa"]}

\* A listing page: without the results table, or with a table of rows.
ListPages ==
    {[grid |-> FALSE, rows |-> <<>>]}
    \cup {[grid |-> TRUE, rows |-> rows] : rows \in SeqsUpTo(ListRows, MaxRows)}

ListInit ==
    /\ list_regions = ListRegions
    /\ list_pages \in [2..3 -> ListPages]
    /\ lpc = "start"
    /\ results = <<>>
    /\ parsed = None
    /\ region_lists_json = None
    /\ loaded_lists = <<>>
    /\ CacheIdle
    /\ RegionIdle
    /\ ProfileIdle

\* list(parse_region_list(html, region)) called on a cached page, with a
\* region or with the default region = None.
ParseRegionList ==
    /\ lpc = "start"
    /\ \E t \in DOMAIN list_pages :
       \E region \in {None} \cup {Some(list_regions[i]) : i \in DOMAIN list_regions} :
          LET r == parse_region_list(list_pages[t], region)
          IN  /\ parsed' = Some([page |-> list_pages[t], region |-> region,
                                 raised |-> r.raised, value |-> r.value])
              /\ lpc' = IF r.raised THEN "parse_raised" ELSE "parsed"
    /\ UNCHANGED <<list_regions, list_pages, results, region_lists_json,
                   loaded_lists, cacheVars, regionVars, profileVars>>

\* results = list(load_raw_region_lists(regions))
LoadRawRegionLists ==
    /\ lpc = "start"
    /\ LET r == load_raw_region_lists(list_regions)
       IN  /\ results' = r.value
           /\ lpc' = IF r.raised THEN "parse_raised" ELSE "listed"
    /\ UNCHANGED <<list_regions, list_pages, parsed, region_lists_json,
                   loaded_lists, cacheVars, regionVars, profileVars>>

\* dump_region_lists(results)
DumpRegionLists ==
    /\ lpc = "listed"
    /\ region_lists_json' = Some(dump_region_lists(results))
    /\ lpc' = "dumped"
    /\ UNCHANGED <<list_regions, list_pages, results, parsed, loaded_lists,
                   cacheVars, regionVars, profileVars>>

\* loaded_lists = list(load_region_lists(regions))
LoadRegionLists ==
    /\ lpc = "dumped"
    /\ LET r == load_region_lists(region_lists_json[1], list_regions)
       IN  /\ loaded_lists' = r.value
           /\ lpc' = IF r.raised THEN "load_raised" ELSE "loaded"
    /\ UNCHANGED <<list_regions, list_pages, results, parsed, region_lists_json,
                   cacheVars, regionVars, profileVars>>

ListNext ==
    \/ ParseRegionList
    \/ LoadRawRegionLists
    \/ DumpRegionLists
    \/ LoadRegionLists

SpecLists == ListInit /\ [][ListNext]_vars

\* The records of the regions, in order, that have an id and whose page has
\* the results table.
RECURSIVE RecordsOfTables(_)
RecordsOfTables(rs) ==
    IF rs = <<>> THEN <<>>
    ELSE LET region == Head(rs)
             rest == RecordsOfTables(Tail(rs))
         IN  IF region.id = None \/ ~list_pages[region.id[1]].grid THEN rest
             ELSE [n \in DOMAIN list_pages[region.id[1]].rows |->
                      parse_row(list_pages[region.id[1]].rows[n], Some(region))]
                  \o rest

\* C7 (as claimed): for a page without the results table parse_region_list
\* yields nothing and does not raise, whatever region it is called with,
\* the default None included; and load_raw_region_lists yields the records
\* of all regions that do have a table.
C7_NoTableNoRaise ==
    /\ lpc # "parse_raised"
    /\ (parsed # None /\ ~parsed[1].page.grid) =>
          (~parsed[1].raised /\ parsed[1].value = <<>>)
    /\ lpc = "listed" => results = RecordsOfTables(list_regions)

\* C4: load_region_lists after dump_region_lists yields the same records in
\* the same order: same id, address, year, area and company text (a null
\* company is stored as null, never as an interned id, and stays null), and
\* the supplied region whose id is the record's region id.
C4_ListingRoundTrip ==
    /\ lpc # "load_raised"
    /\ lpc \in {"dumped", "loaded"} =>
          \A i \in DOMAIN results :
              (results[i].company = None) = (region_lists_json[1].data[i][6] = None)
    /\ lpc = "loaded" =>
          /\ Len(loaded_lists) = Len(results)
          /\ \A i \in DOMAIN results :
                /\ loaded_lists[i].id = results[i].id
                /\ loaded_lists[i].address = results[i].address
                /\ loaded_lists[i].year = results[i].year
                /\ loaded_lists[i].area = results[i].area
                /\ loaded_lists[i].company = results[i].company
                /\ loaded_lists[i].region[1].id = results[i].region[1].id
                /\ InSeq(loaded_lists[i].region[1], list_regions)
          /\ \A i, j \in DOMAIN results :
                (loaded_lists[i].company = loaded_lists[j].company)
                    = (results[i].company = results[j].company)

\* A reloaded listing whose first record has a company (interned under id 0),
\* with a later record of the same company and a record without company.
C4_Witness ==
    /\ lpc = "loaded"
    /\ Len(results) >= 3
    /\ results[1].company # None
    /\ region_lists_json[1].data[1][6] = Some(0)
    /\ \E i \in DOMAIN results : i > 1 /\ results[i].company = results[1].company
    /\ \E i \in DOMAIN results : loaded_lists[i].company = None

(***************************************************************************)
(* Profile parser and dataset export                                       *)
(***************************************************************************)

\* The labels of the profile table, in Latin transliteration.
LABEL_BUILT == "God postrojki"

LABEL_OPENED == "God vvoda doma v ekspluataciyu"

LABEL_FLOORS_MIN == "naimenshee, ed."

LABEL_FLOORS_MAX == "naibolshee, ed."

LABEL_APPARTMENTS == "Kolichestvo pomeshchenij, v tom chisle:"

LABEL_ENTRANCES == "Kolichestvo podezdov, ed."

LABEL_ELEVATORS == "Kolichestvo liftov, ed."

LABEL_AREA == "Obshchaya ploshchad doma, kv.m"

LABEL_PARKING == "ploshchad parkovki v granicah zemelnogo uchastka, kv.m"

LABEL_TYPE == "Tip doma"

LABEL_SERIES == "Seriya, tip postrojki zdaniya"

LABEL_CAPITAL == "Sposob formirovaniya fonda kapitalnogo remonta"

LABEL_REPAIR == "Dom priznan avarijnym"

LABEL_ENERGY == "Klass energeticheskoj effektivnosti"

\* u'Da', u'Net' and u'Ne prisvoen' of the source.
YES == "Da"

NO == "Net"

NOT_ASSIGNED == "Ne prisvoen"

\* Python values of a field that holds booleans, numbers or text.
PyBool(b) == <<"bool", IF b THEN "True" ELSE "False">>

PyText(t) == <<"unicode", t>>

PyInt(n) == <<"int", ToString(n)>>

\* The largest year text the pages of the model carry.
MaxYear == 2100

\* int() of a decimal string without separators.
decimal_int(string) == CHOOSE n \in 0..MaxYear : ToString(n) = string

\* parse_building_profile_data: label -> value, the last group of a label
\* winning and the "not filled" token stored as None.
RECURSIVE parse_building_profile_data_from(_, _)
parse_building_profile_data_from(fields, data) ==
    IF fields = <<>> THEN data
    ELSE LET f == Head(fields)
             value == IF f.value = NOT_FILLED THEN None ELSE Some(f.value)
         IN  parse_building_profile_data_from(Tail(fields), (f.key :> value) @@ data)

parse_building_profile_data(page) == parse_building_profile_data_from(page.fields, <<>>)

\* dict.get(key): None for a missing key.
get(data, key) == IF key \in DOMAIN data THEN data[key] ELSE None

\* parse_building_profile_coordinates: the two numbers of the placemark
\* literal, None when the page has no such literal.
parse_building_profile_coordinates(page) ==
    IF page.placemark = None THEN None
    ELSE Some([longitude |-> float_of(page.placemark[1][1]),
               latitude |-> float_of(page.placemark[1][2])])

\* int_or_none
int_or_none(value) == IF value # None THEN Some(decimal_int(value[1])) ELSE None

\* parse_building_profile_dates
parse_building_profile_dates(data) ==
    [built |-> int_or_none(get(data, LABEL_BUILT)),
     opened |-> int_or_none(get(data, LABEL_OPENED))]

\* parse_building_profile_measures (the texts of the model carry no spaces)
parse_building_profile_measures(data) ==
    [floors |-> [min |-> int_or_none(get(data, LABEL_FLOORS_MIN)),
                 max |-> int_or_none(get(data, LABEL_FLOORS_MAX))],
     appartments |-> int_or_none(get(data, LABEL_APPARTMENTS)),
     entrances |-> int_or_none(get(data, LABEL_ENTRANCES)),
     elevators |-> int_or_none(get(data, LABEL_ELEVATORS)),
     area_meters |-> int_or_none(get(data, LABEL_AREA)),
     parking_meters |-> int_or_none(get(data, LABEL_PARKING))]

\* parse_building_profile_types, lines 516-520: u'Da' becomes True, u'Net'
\* False; any other value is left as data.get returned it.
repair_of(value) ==
    IF value = Some(YES) THEN PyBool(TRUE)
    ELSE IF value = Some(NO) THEN PyBool(FALSE)
    ELSE IF value = None THEN None
    ELSE PyText(value[1])

\* parse_building_profile_types
parse_building_profile_types(data) ==
    [building |-> get(data, LABEL_TYPE),
     series |-> get(data, LABEL_SERIES),
     capital |-> get(data, LABEL_CAPITAL),
     repair |-> repair_of(get(data, LABEL_REPAIR)),
     energy |-> IF get(data, LABEL_ENERGY) = Some(NOT_ASSIGNED) THEN None
                ELSE get(data, LABEL_ENERGY)]

\* parse_building_profile
parse_building_profile(page, region, id) ==
    LET data == parse_building_profile_data(page)
    IN  [region |-> region, id |-> id,
         coordinates |-> parse_building_profile_coordinates(page),
         when_was |-> parse_building_profile_dates(data),
         number_of |-> parse_building_profile_measures(data),
         type_of |-> parse_building_profile_types(data)]

\* dump_data, lines 688-723: the row of one profile that has coordinates.
data_row(profile) ==
    LET year == profile.when_was.opened
        floors == profile.number_of.floors.max
        appartments == profile.number_of.appartments
        parking == profile.number_of.parking_meters
    IN  <<profile.coordinates[1].longitude,
          profile.coordinates[1].latitude,
          IF year = None \/ ~(1900 <= year[1] /\ year[1] <= 2015) THEN None
          ELSE Some(ToString(year[1])),
          IF floors = None THEN None
          ELSE IF floors[1] < 5 THEN PyText("1..4")
          ELSE IF floors[1] = 5 THEN PyInt(5)
          ELSE IF floors[1] < 9 THEN PyText("6..8")
          ELSE IF floors[1] = 9 THEN PyInt(9)
          ELSE PyText(">9"),
          IF appartments = None THEN None ELSE Some(ToString(appartments[1])),
          IF parking = None THEN None ELSE PyBool(parking[1] > 0),
          profile.type_of.repair,
          profile.type_of.energy>>

\* dump_data, lines 682-687: the rows of the profiles whose coordinates are
\* not None and not in cache, in input order.
RECURSIVE data_rows(_, _)
data_rows(ps, cache) ==
    IF ps = <<>> THEN <<>>
    ELSE LET profile == Head(ps)
             coordinates == profile.coordinates
         IN  IF coordinates # None /\ coordinates[1] \notin cache
             THEN <<data_row(profile)>>
                  \o data_rows(Tail(ps), cache \cup {coordinates[1]})
             ELSE data_rows(Tail(ps), cache)

\* random.sample(population, k): ValueError when k exceeds the population,
\* otherwise any k items at distinct positions, in any order.
sample(population, k) ==
    IF k > Len(population) THEN [raised |-> TRUE, values |-> {}]
    ELSE [raised |-> FALSE,
          values |-> {[n \in 1..k |-> population[pick[n]]] :
                        pick \in {f \in [1..k -> DOMAIN population] :
                                    \A a, b \in 1..k : a # b => f[a] # f[b]}}]

\* ---- the cached profile pages ----

\* The placemark literals of the pages: none, two spellings of one point,
\* and a second point.
Placemarks ==
    {None,
     Some(<<<<"3", "7", ".", "6">>, <<"5", "5", ".", "7">>>>),
     Some(<<<<"3", "7", ".", "6", "0">>, <<"5", "5", ".", "7", "0">>>>),
     Some(<<<<"3", "0", ".", "3">>, <<"5", "9", ".", "9">>>>)}

\* The values of the condemned label: absent (None) or a text.
RepairTexts == {None, Some(YES), Some(NO), Some(NOT_FILLED), Some("Net dannyh")}

\* The values of the commissioning year label.
OpenedTexts == {None, Some("1975"), Some("1850")}

ProfilePages ==
    {[placemark |-> m,
      fields |-> (IF r = None THEN <<>> ELSE <<[key |-> LABEL_REPAIR, value |-> r[1]]>>)
                 \o (IF o = None THEN <<>> ELSE <<[key |-> LABEL_OPENED, value |-> o[1]]>>)] :
        m \in Placemarks, r \in RepairTexts, o \in OpenedTexts}

ProfileInit ==
    /\ profile_pages \in SeqsUpTo(ProfilePages, MaxProfiles)
    /\ ppc = "parse"
    /\ profiles = <<>>
    /\ data_csv = None
    /\ CacheIdle
    /\ RegionIdle
    /\ ListIdle

\* parse_building_profile of the next page; the building id is its position.
ParseBuildingProfile ==
    /\ ppc = "parse"
    /\ Len(profiles) < Len(profile_pages)
    /\ LET id == Len(profiles) + 1
       IN  profiles' = Append(profiles,
                              parse_building_profile(profile_pages[id],
                                                     Some(ListRegions[1]), id))
    /\ UNCHANGED <<profile_pages, ppc, data_csv, cacheVars, regionVars, listVars>>

\* dump_data(profiles)
DumpData ==
    /\ ppc = "parse"
    /\ Len(profiles) = Len(profile_pages)
    /\ LET r == sample(data_rows(profiles, {}), SAMPLE_SIZE)
       IN  IF r.raised
           THEN ppc' = "dump_raised" /\ data_csv' = data_csv
           ELSE ppc' = "dumped" /\ \E rows \in r.values : data_csv' = Some(rows)
    /\ UNCHANGED <<profile_pages, profiles, cacheVars, regionVars, listVars>>

ProfileNext ==
    \/ ParseBuildingProfile
    \/ DumpData

SpecProfiles == ProfileInit /\ [][ProfileNext]_vars

\* The text of the condemned label on a page, None when the label is absent.
RECURSIVE RawRepair(_)
RawRepair(fields) ==
    IF fields = <<>> THEN None
    ELSE IF fields[Len(fields)].key = LABEL_REPAIR THEN Some(fields[Len(fields)].value)
    ELSE RawRepair(SubSeq(fields, 1, Len(fields) - 1))

\* C5 (as claimed): the condemned status is True for the value 'Da', False
\* for 'Net', and None for every other value, an absent label and the
\* "not filled" token included.
C5_CondemnedTriState ==
    \A i \in DOMAIN profiles :
        LET raw == RawRepair(profile_pages[i].fields)
        IN  profiles[i].type_of.repair =
                IF raw = Some(YES) THEN PyBool(TRUE)
                ELSE IF raw = Some(NO) THEN PyBool(FALSE)
                ELSE None

\* The rows of the first profile, in input order, of every coordinate pair.
FirstSeenRows ==
    {data_row(profiles[i]) : i \in {i \in DOMAIN profiles :
        /\ profiles[i].coordinates # None
        /\ \A j \in 1..(i - 1) : profiles[j].coordinates # profiles[i].coordinates}}

\* C9 (as claimed): dump_data always writes the export; its rows are rows of
\* first-seen profiles of distinct coordinate pairs, at most SAMPLE_SIZE of
\* them, and all of them when there are fewer than SAMPLE_SIZE.
C9_ExportDedupSampled ==
    /\ ppc # "dump_raised"
    /\ ppc = "dumped" =>
          /\ Len(data_csv[1]) <= SAMPLE_SIZE
          /\ {data_csv[1][n] : n \in DOMAIN data_csv[1]} \subseteq FirstSeenRows
          /\ Cardinality(FirstSeenRows) <= SAMPLE_SIZE =>
                {data_csv[1][n] : n \in DOMAIN data_csv[1]} = FirstSeenRows

====
